---- MODULE Spec2Model ----
(***************************************************************************)
(* kon-tawa: the cross-thread DoubleBuffer of src/src/audio.rs, shared by  *)
(* the audio callback (producer) and the event loop (consumer), the        *)
(* callback's sample accumulation, the World stencil update of             *)
(* src/src/main.rs and the Array2D grid of src/src/simulation.rs.          *)
(***************************************************************************)
EXTENDS Integers, Sequences, FiniteSets, TLC

VARIABLES
    idx,              \* DoubleBuffer.idx: the AtomicUsize naming the front slot
    locked,           \* bufs[s]: whether the Mutex of slot s is locked
    poisoned,         \* bufs[s]: whether the Mutex of slot s is poisoned
    bufs,             \* bufs[s]: the Vec<f32> the Mutex of slot s protects
    pc,               \* per thread: its position in its cycle
    get_idx,          \* per thread: the local `idx` of DoubleBuffer::get
    nominal,          \* per thread: the `init_idx` its current get() was called with
    guard,            \* per thread: the slot its live MutexGuard refers to, or NoGuard
    fails,            \* per thread: WouldBlock results seen by its current get() call
    peerAcq,          \* per thread: guards the other thread acquired during its current get() call
    lastOp,           \* the operation that produced the current state
    pressures,        \* World.pressures (front)
    pressures_back,   \* World.pressures_back
    velocities,       \* World.velocities (front)
    velocities_back,  \* World.velocities_back
    materials,        \* World.materials
    ticks,            \* World.ticks
    params,           \* World.params: [grad_alpha, grad_damping]
    panicked,         \* per thread: whether it has panicked
    grid,             \* an Array2D under test, or NoGrid
    call,             \* the last call made on grid and what it returned
    accum_buffer,     \* do_audio: the callback's accum_buffer
    handed,           \* do_audio: the chunks handed to the spectral transform so far
    bound,            \* upper bounds on the magnitudes the World's grids hold
    handoff           \* where a producer-then-consumer handoff stands, and what was written

bufVars == <<idx, locked, poisoned, bufs, pc, get_idx, nominal, guard, fails, peerAcq>>
worldVars == <<pressures, pressures_back, velocities, velocities_back, materials, ticks, params>>
vars == <<idx, locked, poisoned, bufs, pc, get_idx, nominal, guard, fails, peerAcq, lastOp,
          pressures, pressures_back, velocities, velocities_back, materials, ticks, params,
          panicked, grid, call, accum_buffer, handed, bound, handoff>>
\* the state outside the DoubleBuffer and the World
offVars == <<grid, call, accum_buffer, handed, bound>>
sideVars == <<grid, call, accum_buffer, handed, bound, handoff>>

(***************************************************************************)
(* Bounds of the model.                                                    *)
(***************************************************************************)
\* the WouldBlock counter of one get() call saturates here
MaxFails == 3
\* update() is not taken once the tick counter has reached this value
MaxTicks == 7
\* the update() calls the magnitude bounds are followed through
MaxBoundTicks == 10000
\* the capture callback is not taken once accum_buffer holds this many samples
MaxSamples == 5
\* the most samples one capture callback delivers
MaxData == 3
\* the capture callback is not taken once it would have handed more chunks than this
MaxHanded == 4
\* usize::MAX of the model: usize is 0..UsizeMax, isize is -(IsizeMax + 1)..IsizeMax
UsizeMax == 12
\* the largest finite magnitude of the model's f32; a larger result is infinite
FMax == 50000

(***************************************************************************)
(* f32 values.  A finite value is an integer count of thousandths in       *)
(* -FMax..FMax; the three non-finite values of IEEE 754 are kept apart.    *)
(***************************************************************************)
PInf == FMax + 1
NInf == 0 - (FMax + 1)
NaN == FMax + 2
\* main.rs spells 1.0 and 0.0; One is 1.0 in thousandths
One == 1000

IsNaN(a) == a = NaN
\* f32::is_infinite
IsInfinite(a) == a = PInf \/ a = NInf
\* f32::is_finite
IsFinite(a) == ~IsNaN(a) /\ ~IsInfinite(a)

\* a real result as f32: beyond the largest finite magnitude it is infinite
Round(r) == IF r > FMax THEN PInf ELSE IF r < 0 - FMax THEN NInf ELSE r

FNeg(a) == IF IsNaN(a) THEN NaN ELSE 0 - a

\* f32 addition
FAdd(a, b) ==
    IF IsNaN(a) \/ IsNaN(b) THEN NaN
    ELSE IF IsInfinite(a) /\ IsInfinite(b) THEN (IF a = b THEN a ELSE NaN)
    ELSE IF IsInfinite(a) THEN a
    ELSE IF IsInfinite(b) THEN b
    ELSE Round(a + b)

\* f32 subtraction
FSub(a, b) == FAdd(a, FNeg(b))

Sign(a) == IF a > 0 THEN 1 ELSE IF a < 0 THEN 0 - 1 ELSE 0

\* `* 0.5` of main.rs:132 (exact on the even values the model's frames hold)
FHalf(a) == IF IsFinite(a) THEN a \div 2 ELSE a

(***************************************************************************)
(* DoubleBuffer (src/src/audio.rs).                                        *)
(***************************************************************************)
Slots == {0, 1}
Producer == "producer"
Consumer == "consumer"
Threads == {Producer, Consumer}
Other(t) == IF t = Producer THEN Consumer ELSE Producer

\* the spectrum length (FftProcessorOptions.size, scaled down)
FftSize == 2
\* the magnitudes a bin can hold: ln(0) = -inf on silence, or a finite value
BinVals == {NInf, 2 * One}
\* what one callback publishes: fft_buf mapped through norm().ln()
Frames == [1..FftSize -> BinVals]

\* x ^ 1 on an index in {0, 1}
Xor1Same(i) == i
Xor1(i) == 1 - i

\* flip(): idx.fetch_xor(1)
FlippedIdxOr == IF idx = 0 THEN 1 ELSE idx
FlippedIdx == 1 - idx

\* the slot front() asks get() for
FrontIdxIsBack == 1 - idx
FrontIdx == idx

\* the slot back() asks get() for
BackIdxIsFront == idx
BackIdx == Xor1(idx)

\* Mutex::try_lock on slot s returns Err(WouldBlock)
TryLockNeverBlocks(s) == FALSE
TryLockWouldBlock(s) == locked[s]

\* Mutex::try_lock on slot s returns Err(Poisoned)
TryLockPoisoned(s) == ~locked[s] /\ poisoned[s]

\* the counters of one get() call saturate at MaxFails
Bump(n) == IF n < MaxFails THEN n + 1 ELSE n

\* DoubleBuffer::new([Vec::new(), Vec::new()]) and both threads before their first cycle
InitBuf ==
    /\ idx = 0
    /\ locked = [s \in Slots |-> FALSE]
    /\ poisoned = [s \in Slots |-> FALSE]
    /\ bufs = [s \in Slots |-> <<>>]
    /\ pc = [t \in Threads |-> IF t = Consumer THEN "flip" ELSE "load"]
    /\ get_idx = [t \in Threads |-> 0]
    /\ nominal = [t \in Threads |-> 0]
    /\ guard = [t \in Threads |-> {}]
    /\ fails = [t \in Threads |-> 0]
    /\ peerAcq = [t \in Threads |-> 0]
    /\ panicked = [t \in Threads |-> FALSE]
    /\ lastOp = "init"

\* consumer: audio_dbuf.flip()
Flip ==
    /\ pc[Consumer] = "flip"
    /\ idx' = FlippedIdx
    /\ pc' = [pc EXCEPT ![Consumer] = "load"]
    /\ lastOp' = "flip"
    /\ UNCHANGED <<locked, poisoned, bufs, get_idx, nominal, guard, fails, peerAcq, panicked>>

\* front() / back(): load idx and enter get(init_idx)
Load(t) ==
    /\ pc[t] = "load"
    /\ LET init_idx == IF t = Consumer THEN FrontIdx ELSE BackIdx
       IN  /\ get_idx' = [get_idx EXCEPT ![t] = init_idx]
           /\ nominal' = [nominal EXCEPT ![t] = init_idx]
    /\ fails' = [fails EXCEPT ![t] = 0]
    /\ peerAcq' = [peerAcq EXCEPT ![t] = 0]
    /\ pc' = [pc EXCEPT ![t] = "try"]
    /\ lastOp' = "load"
    /\ UNCHANGED <<idx, locked, poisoned, bufs, guard, panicked>>

\* get(): try_lock did not return Err(WouldBlock): Ok(x) returns the guard x,
\* Err(Poisoned(e)) panics
TryOk(t) ==
    /\ pc[t] = "try"
    /\ ~TryLockWouldBlock(get_idx[t])
    /\ IF TryLockPoisoned(get_idx[t])
       THEN /\ panicked' = [panicked EXCEPT ![t] = TRUE]
            /\ pc' = [pc EXCEPT ![t] = "panicked"]
            /\ lastOp' = "panic"
            /\ UNCHANGED <<locked, guard, peerAcq>>
       ELSE /\ locked' = [locked EXCEPT ![get_idx[t]] = TRUE]
            /\ guard' = [guard EXCEPT ![t] = guard[t] \cup {get_idx[t]}]
            /\ peerAcq' = [peerAcq EXCEPT ![Other(t)] =
                   IF pc[Other(t)] = "try" THEN Bump(peerAcq[Other(t)]) ELSE peerAcq[Other(t)]]
            /\ pc' = [pc EXCEPT ![t] = IF t = Consumer THEN "read" ELSE "clear"]
            /\ lastOp' = IF t = Consumer THEN "front" ELSE "back"
            /\ UNCHANGED panicked
    /\ UNCHANGED <<idx, poisoned, bufs, get_idx, nominal, fails>>

\* get(): try_lock returned Err(WouldBlock); idx ^= 1 and loop
TryWouldBlock(t) ==
    /\ pc[t] = "try"
    /\ TryLockWouldBlock(get_idx[t])
    /\ get_idx' = [get_idx EXCEPT ![t] = Xor1(get_idx[t])]
    /\ fails' = [fails EXCEPT ![t] = Bump(fails[t])]
    /\ lastOp' = "wouldblock"
    /\ UNCHANGED <<idx, locked, poisoned, bufs, pc, nominal, guard, peerAcq, panicked>>

\* producer: out_buf.clear()
Clear ==
    /\ pc[Producer] = "clear"
    /\ \E s \in guard[Producer] : bufs' = [bufs EXCEPT ![s] = <<>>]
    /\ pc' = [pc EXCEPT ![Producer] = "extend"]
    /\ lastOp' = "clear"
    /\ UNCHANGED <<idx, locked, poisoned, get_idx, nominal, guard, fails, peerAcq, panicked>>

\* out_buf.extend(...) has pushed every bin of fft_buf
ExtendDoneEarly(b) == Len(b) >= 1
ExtendDone(b) == Len(b) = FftSize

\* producer: out_buf.extend(...) pushes the next bin of this callback's spectrum
Extend ==
    /\ pc[Producer] = "extend"
    /\ \E s \in guard[Producer], v \in BinVals :
        /\ bufs' = [bufs EXCEPT ![s] = Append(bufs[s], v)]
        /\ pc' = [pc EXCEPT ![Producer] =
               IF ExtendDone(Append(bufs[s], v)) THEN "release" ELSE "extend"]
    /\ lastOp' = "extend"
    /\ UNCHANGED <<idx, locked, poisoned, get_idx, nominal, guard, fails, peerAcq, panicked>>

\* whether slot s is locked once the guards in g have been dropped
LeakedUnlock(g, s) == locked[s]
Unlocked(g, s) == IF s \in g THEN FALSE ELSE locked[s]

\* the MutexGuard of thread t goes out of scope
Release(t) ==
    /\ pc[t] = "release"
    /\ locked' = [s \in Slots |-> Unlocked(guard[t], s)]
    /\ guard' = [guard EXCEPT ![t] = {}]
    /\ pc' = [pc EXCEPT ![t] = IF t = Consumer THEN "update1" ELSE "load"]
    /\ lastOp' = "release"
    /\ UNCHANGED <<idx, poisoned, bufs, get_idx, nominal, fails, peerAcq, panicked>>

\* consumer: the block of main.rs:128-140 has read the slot it holds
ReadSlot ==
    /\ pc[Consumer] = "read"
    /\ pc' = [pc EXCEPT ![Consumer] = "release"]
    /\ lastOp' = "read"
    /\ UNCHANGED <<idx, locked, poisoned, bufs, get_idx, nominal, guard, fails, peerAcq, panicked>>

(***************************************************************************)
(* Array2D (src/src/simulation.rs) and World (src/src/main.rs).  The grid  *)
(* is scaled down: 3 x 3 cells instead of 512 x 512, one forced row        *)
(* instead of four, one stripe row instead of four, a stripe period of 2   *)
(* columns instead of 128.                                                 *)
(***************************************************************************)
WIDTH == 3
HEIGHT == 3
\* `for y in 0..4` of the host forcing
ForceRows == 1
\* `for y in 380..384` of the stripe repaint
StripeTop == 2
StripeBottom == 3
\* `& 0x7F` and `< 0x40` of the stripe repaint
StripePeriod == 2
StripeHalf == 1
\* `self.ticks % 6` and `self.ticks / 6`
RepaintEvery == 6

Fluid == "Fluid"
Solid == "Solid"
Emitter == "Emitter"
Materials == {Fluid, Solid, Emitter}

\* Vec2::new(x, y) and Vec2::ZERO
Vec2(x, y) == [x |-> x, y |-> y]
Vec2Zero == Vec2(0, 0)

\* isize::MAX
IsizeMax == UsizeMax \div 2

\* usize::checked_mul: None is <<>>
WrappingMul(a, b) == <<(a * b) % (UsizeMax + 1)>>
CheckedMul(a, b) == IF a * b > UsizeMax THEN <<>> ELSE <<a * b>>

\* `u as isize` and `i as usize`: the same bits, read in the other type
AsIsize(u) == IF u > IsizeMax THEN u - (UsizeMax + 1) ELSE u
AsUsize(i) == IF i < 0 THEN i + (UsizeMax + 1) ELSE i

\* the longest Vec that collect() can build (elements of one byte, as Material is):
\* beyond it the allocation panics with a capacity overflow
VecMaxLen == IsizeMax

\* Array2D::new panics: one of the two assert_ne!, the unwrap of checked_mul, or collect()
NewPanics(width, height) ==
    \/ width = 0
    \/ height = 0
    \/ CheckedMul(width, height) = <<>>
    \/ CheckedMul(width, height)[1] > VecMaxLen

\* Array2D::new(width, height, val)
Array2DNew(width, height, val) ==
    [width |-> width, height |-> height,
     storage |-> [i \in 0..(width * height - 1) |-> val]]

\* Array2D::get / get_mut: None is <<>>, Some(i) is the one-element sequence of the index
IndexOffByOne(g, x, y) ==
    IF x < 0 \/ y < 0 \/ x > AsIsize(g.width) \/ y > AsIsize(g.height)
    THEN <<>>
    ELSE <<AsUsize(x + AsIsize(g.width) * y)>>
Index(g, x, y) ==
    IF x < 0 \/ y < 0 \/ x >= AsIsize(g.width) \/ y >= AsIsize(g.height)
    THEN <<>>
    ELSE <<AsUsize(x + AsIsize(g.width) * y)>>

\* slice::get / get_mut on the storage: None when i is past the end
StorageGet(st, i) == IF i \in DOMAIN st THEN <<i>> ELSE <<>>

\* Array2D::get / get_mut: the place of the element returned, None is <<>>
Place(g, x, y) ==
    IF Index(g, x, y) = <<>> THEN <<>> ELSE StorageGet(g.storage, Index(g, x, y)[1])

\* Array2D::get(x, y).copied(): None is <<>>
Get(g, x, y) ==
    IF Place(g, x, y) = <<>> THEN <<>> ELSE <<g.storage[Place(g, x, y)[1]]>>

\* *r = v through the reference get_mut returned to place i
StoredNowhere(st, i, v) == st
Stored(st, i, v) == [st EXCEPT ![i] = v]

\* Array2D::get(x, y).copied().unwrap_or(default)
GetOr(g, x, y, default) ==
    IF Index(g, x, y) = <<>> THEN default ELSE g.storage[Index(g, x, y)[1]]

\* *g.get_mut(x, y).unwrap() = v[x], for every (x, y) of the rectangle
Fill(g, x0, x1, y0, y1, v) ==
    [g EXCEPT !.storage =
        [i \in DOMAIN g.storage |->
            IF  /\ (i % g.width) >= x0 /\ (i % g.width) < x1
                /\ (i \div g.width) >= y0 /\ (i \div g.width) < y1
            THEN v[i % g.width]
            ELSE g.storage[i]]]

Cells == 0..(WIDTH * HEIGHT - 1)
CellX(i) == i % WIDTH
CellY(i) == i \div WIDTH

\* x * y of two f32 values, both in thousandths: the real product rounded to the grid
FMul(a, b) ==
    IF IsNaN(a) \/ IsNaN(b) THEN NaN
    ELSE IF IsInfinite(a) \/ IsInfinite(b) THEN
        (IF a = 0 \/ b = 0 THEN NaN ELSE IF Sign(a) * Sign(b) > 0 THEN PInf ELSE NInf)
    ELSE LET n == a * b
             m == IF n < 0 THEN 0 - n ELSE n
         IN  Round(Sign(n) * ((2 * m + One) \div (2 * One)))

\* 2.5 * (time / 3.0).sin() with time = ticks / 16.0, in thousandths, for ticks 1..12
OscTable == <<52, 104, 156, 208, 260, 312, 363, 415, 466, 517, 568, 619>>
OscillatorBeforeIncrement(t) == IF t = 1 THEN 0 ELSE OscTable[t - 1]
Oscillator(t) == OscTable[t]

\* the material update() paints into column x of the stripe rows
StripeMaterial(x, t) ==
    IF (x + (t \div RepaintEvery)) % StripePeriod < StripeHalf THEN Solid ELSE Fluid

\* the materials grid after the stripe repaint of update(), which runs when ticks % 6 == 0
Repainted(m, t) ==
    IF t % RepaintEvery = 0
    THEN Fill(m, 0, WIDTH, StripeTop, StripeBottom, [x \in 0..(WIDTH - 1) |-> StripeMaterial(x, t)])
    ELSE m

\* grad of update(): (right - left, down - up) on the back pressure grid
GradientBoundaryOne(pb, x, y) ==
    Vec2(FSub(GetOr(pb, x + 1, y, One), GetOr(pb, x - 1, y, 0)),
         FSub(GetOr(pb, x, y + 1, One), GetOr(pb, x, y - 1, 0)))
Gradient(pb, x, y) ==
    Vec2(FSub(GetOr(pb, x + 1, y, 0), GetOr(pb, x - 1, y, 0)),
         FSub(GetOr(pb, x, y + 1, 0), GetOr(pb, x, y - 1, 0)))

\* accum of the Fluid branch of update(), on the back velocity grid
Accum(vb, x, y) ==
    LET a1 == FAdd(0, GetOr(vb, x - 1, y, Vec2Zero).x)
        a2 == FSub(a1, GetOr(vb, x + 1, y, Vec2Zero).x)
        a3 == FAdd(a2, GetOr(vb, x, y - 1, Vec2Zero).y)
    IN  FSub(a3, GetOr(vb, x, y + 1, Vec2Zero).y)

\* *front_v += grad * grad_alpha; *front_v *= 1.0 - grad_damping
StepVelocity(front_v, grad, par) ==
    LET keep == FSub(One, par.grad_damping)
        vx == FAdd(front_v.x, FMul(grad.x, par.grad_alpha))
        vy == FAdd(front_v.y, FMul(grad.y, par.grad_alpha))
    IN  Vec2(FMul(vx, keep), FMul(vy, keep))

\* the value the closure of update() leaves in *front_v of cell i
CellVelocityKeptInSolid(i, mat, front_v, pb, par) ==
    StepVelocity(front_v, Gradient(pb, CellX(i), CellY(i)), par)
CellVelocity(i, mat, front_v, pb, par) ==
    IF mat.storage[i] = Solid THEN Vec2Zero
    ELSE StepVelocity(front_v, Gradient(pb, CellX(i), CellY(i)), par)

\* the value the closure of update() leaves in *front of cell i
CellPressure(i, mat, front, back, vb, t) ==
    IF mat.storage[i] = Fluid THEN FSub(front, Accum(vb, CellX(i), CellY(i)))
    ELSE IF mat.storage[i] = Emitter THEN Oscillator(t)
    ELSE 0

\* World::new(params)
WorldNew(par) ==
    /\ pressures = Array2DNew(WIDTH, HEIGHT, 0)
    /\ pressures_back = Array2DNew(WIDTH, HEIGHT, 0)
    /\ velocities = Array2DNew(WIDTH, HEIGHT, Vec2Zero)
    /\ velocities_back = Array2DNew(WIDTH, HEIGHT, Vec2Zero)
    /\ materials = Array2DNew(WIDTH, HEIGHT, Fluid)
    /\ params = par
    /\ ticks = 0

\* the parameter records the Framework panel can leave in World.params
Gains == {One, 2 * One}
Dampings == {0, One \div 2}
ParamSet == [grad_alpha : Gains, grad_damping : Dampings]
\* a wider range: negative, zero and above-one gains and dampings
WideParamSet ==
    [grad_alpha : {0 - One, 0, One, 2 * One},
     grad_damping : {0 - One, 0, One \div 2, One, 2 * One}]

\* the pressure the host writes into column x from the slot contents front
ForcePressure(front, x) ==
    LET pres == FHalf(front[(x % Len(front)) + 1])
    IN  IF IsFinite(pres) THEN pres ELSE 0

\* the pressures grid after the host forcing of main.rs:130-139
ForcedEveryRow(p, front) ==
    IF front = <<>> THEN p
    ELSE Fill(p, 0, WIDTH, 0, HEIGHT, [x \in 0..(WIDTH - 1) |-> ForcePressure(front, x)])
Forced(p, front) ==
    IF front = <<>> THEN p
    ELSE Fill(p, 0, WIDTH, 0, ForceRows, [x \in 0..(WIDTH - 1) |-> ForcePressure(front, x)])

\* one frame of the event loop up to its first update(), the slot it read holding
\* one of the contents in F
HostFrameWith(F) ==
    /\ pc[Consumer] = "flip"
    /\ \E f \in F : pressures' = Forced(pressures, f)
    /\ pc' = [pc EXCEPT ![Consumer] = "update1"]
    /\ lastOp' = "force"
    /\ UNCHANGED <<idx, locked, poisoned, bufs, get_idx, nominal, guard, fails, peerAcq, panicked>>
    /\ UNCHANGED <<pressures_back, velocities, velocities_back, materials, ticks, params>>
    /\ UNCHANGED sideVars

\* the slot read is empty (no callback has published yet) or holds a published frame
HostFrame == HostFrameWith(Frames \cup {<<>>})

\* the slot read is empty
EmptyFrame == HostFrameWith({<<>>})

\* std::mem::swap(&mut a, &mut b): what a and b hold afterwards
SwapNothing(a, b) == <<a, b>>
Swap(a, b) == <<b, a>>

NextUpdatePc(p) ==
    IF p = "update1" THEN "update2" ELSE IF p = "update2" THEN "update3" ELSE "flip"

\* World::update
Update ==
    /\ pc[Consumer] \in {"update1", "update2", "update3"}
    /\ ticks < MaxTicks
    /\ LET mat == Repainted(materials, ticks)
           \* after the two mem::swap calls
           front == Swap(pressures, pressures_back)[1]
           back == Swap(pressures, pressures_back)[2]
           front_v == Swap(velocities, velocities_back)[1]
           back_v == Swap(velocities, velocities_back)[2]
           t == ticks + 1
       IN  IF \E i \in Cells : IsInfinite(back.storage[i])
           THEN \* assert!(!back.is_infinite()) fails
                /\ panicked' = [panicked EXCEPT ![Consumer] = TRUE]
                /\ pc' = [pc EXCEPT ![Consumer] = "panicked"]
                /\ lastOp' = "panic"
                /\ UNCHANGED worldVars
           ELSE /\ materials' = mat
                /\ pressures' = [front EXCEPT !.storage = [i \in Cells |->
                      CellPressure(i, mat, front.storage[i], back.storage[i], back_v, t)]]
                /\ velocities' = [front_v EXCEPT !.storage = [i \in Cells |->
                      CellVelocity(i, mat, front_v.storage[i], back, params)]]
                /\ pressures_back' = back
                /\ velocities_back' = back_v
                /\ ticks' = t
                /\ pc' = [pc EXCEPT ![Consumer] = NextUpdatePc(pc[Consumer])]
                /\ lastOp' = "update"
                /\ UNCHANGED <<params, panicked>>
    /\ UNCHANGED <<idx, locked, poisoned, bufs, get_idx, nominal, guard, fails, peerAcq>>
    /\ UNCHANGED sideVars

\* the Framework panel writes one of the records in P into the shared SimParams
\* between two frames
SetParamsIn(P) ==
    /\ pc[Consumer] = "flip"
    /\ \E par \in P : par # params /\ params' = par
    /\ lastOp' = "params"
    /\ UNCHANGED <<pressures, pressures_back, velocities, velocities_back, materials, ticks>>
    /\ UNCHANGED <<bufVars, panicked, sideVars>>

SetParams == SetParamsIn(ParamSet)

\* key R: world = World::new(world.params.clone()); return
Reset ==
    /\ pc[Consumer] = "flip"
    /\ ticks > 0
    /\ pressures' = Array2DNew(WIDTH, HEIGHT, 0)
    /\ pressures_back' = Array2DNew(WIDTH, HEIGHT, 0)
    /\ velocities' = Array2DNew(WIDTH, HEIGHT, Vec2Zero)
    /\ velocities_back' = Array2DNew(WIDTH, HEIGHT, Vec2Zero)
    /\ materials' = Array2DNew(WIDTH, HEIGHT, Fluid)
    /\ ticks' = 0
    /\ UNCHANGED params
    /\ lastOp' = "reset"
    /\ UNCHANGED <<bufVars, panicked, sideVars>>

\* the three update() calls of one frame, which touch no DoubleBuffer state
Updates ==
    /\ pc[Consumer] = "update1"
    /\ pc' = [pc EXCEPT ![Consumer] = "flip"]
    /\ lastOp' = "update"
    /\ UNCHANGED <<idx, locked, poisoned, bufs, get_idx, nominal, guard, fails, peerAcq, panicked>>
    /\ UNCHANGED worldVars

\* the consumer's read of the slot, the World left aside
Read == ReadSlot /\ UNCHANGED worldVars

ProducerNext ==
    \/ Load(Producer) /\ UNCHANGED <<worldVars, sideVars>>
    \/ TryOk(Producer) /\ UNCHANGED <<worldVars, sideVars>>
    \/ TryWouldBlock(Producer) /\ UNCHANGED <<worldVars, sideVars>>
    \/ Clear /\ UNCHANGED <<worldVars, sideVars>>
    \/ Extend /\ UNCHANGED <<worldVars, sideVars>>
    \/ Release(Producer) /\ UNCHANGED <<worldVars, sideVars>>

ConsumerNext ==
    \/ Flip /\ UNCHANGED <<worldVars, sideVars>>
    \/ Load(Consumer) /\ UNCHANGED <<worldVars, sideVars>>
    \/ TryOk(Consumer) /\ UNCHANGED <<worldVars, sideVars>>
    \/ TryWouldBlock(Consumer) /\ UNCHANGED <<worldVars, sideVars>>
    \/ Read /\ UNCHANGED sideVars
    \/ Release(Consumer) /\ UNCHANGED <<worldVars, sideVars>>
    \/ Updates /\ UNCHANGED sideVars

\* no Array2D is under test
NoGrid == [state |-> "none", width |-> 0, height |-> 0, storage |-> <<>>]
NoCall == [op |-> "none", x |-> 0, y |-> 0, val |-> 0, result |-> <<>>]
GridIdle == grid = NoGrid /\ call = NoCall

\* the values a test stores in an Array2D<f32>, and the coordinates it asks for
Vals == {0, One}
Coords == (0 - 1)..IsizeMax

\* let grid = Array2D::new(width, height, val)
New ==
    /\ grid.state = "none"
    /\ \E width \in 0..UsizeMax, height \in 0..UsizeMax, val \in Vals :
        /\ grid' = IF NewPanics(width, height)
                   THEN [state |-> "panicked", width |-> 0, height |-> 0, storage |-> <<>>]
                   ELSE [state |-> "built",
                         width |-> Array2DNew(width, height, val).width,
                         height |-> Array2DNew(width, height, val).height,
                         storage |-> Array2DNew(width, height, val).storage]
        /\ call' = [op |-> "new", x |-> width, y |-> height, val |-> val, result |-> <<>>]
    /\ lastOp' = "new"
    /\ UNCHANGED <<bufVars, worldVars, panicked, accum_buffer, handed, bound, handoff>>

\* grid.get(x, y).copied()
GridGet ==
    /\ grid.state = "built"
    /\ \E x \in Coords, y \in Coords :
        call' = [op |-> "get", x |-> x, y |-> y, val |-> 0, result |-> Get(grid, x, y)]
    /\ lastOp' = "get"
    /\ UNCHANGED <<bufVars, worldVars, panicked, grid, accum_buffer, handed, bound, handoff>>

\* if let Some(r) = grid.get_mut(x, y) { *r = val }
GridGetMut ==
    /\ grid.state = "built"
    /\ \E x \in Coords, y \in Coords, val \in Vals :
        /\ call' = [op |-> "get_mut", x |-> x, y |-> y, val |-> val, result |-> Place(grid, x, y)]
        /\ grid' = IF Place(grid, x, y) = <<>> THEN grid
                   ELSE [grid EXCEPT !.storage = Stored(grid.storage, Place(grid, x, y)[1], val)]
    /\ lastOp' = "get_mut"
    /\ UNCHANGED <<bufVars, worldVars, panicked, accum_buffer, handed, bound, handoff>>

\* the capture callback has received no sample
AudioIdle == accum_buffer = <<>> /\ handed = <<>>

\* every grid of World::new holds zeros: p, pb, v and vb bound the magnitudes held by
\* pressures, pressures_back, velocities and velocities_back (each component), in
\* units of BOne; ticks is World.ticks and phase the update() calls left in the frame
BoundZero == [p |-> 0, pb |-> 0, v |-> 0, vb |-> 0, ticks |-> 0, phase |-> 0]
BoundIdle == bound = BoundZero

\* no handoff is under way
NoHandoff == [stage |-> "idle", slot |-> 0, frame |-> <<>>]
HandoffIdle == handoff = NoHandoff

SideIdle == GridIdle /\ AudioIdle /\ BoundIdle /\ HandoffIdle

(***************************************************************************)
(* The two threads on the DoubleBuffer with a record of handoffs: whole    *)
(* producer cycles run while the event loop waits at flip(), followed by   *)
(* the consumer's flip() and front().                                      *)
(***************************************************************************)
\* the handoff record after thread t takes the step op
HandoffAfter(t, op) ==
    IF t = Producer THEN
        IF op = "load" THEN
            IF handoff.stage \in {"flipped", "loaded"} THEN handoff
            ELSE IF pc[Consumer] = "flip" THEN [stage |-> "cycle", slot |-> 0, frame |-> <<>>]
            ELSE NoHandoff
        ELSE IF op = "release" /\ handoff.stage = "cycle" THEN
            [stage |-> "produced",
             slot |-> CHOOSE s \in Slots : s \in guard[Producer],
             frame |-> bufs[CHOOSE s \in Slots : s \in guard[Producer]]]
        ELSE IF handoff.stage \in {"cycle", "flipped", "loaded"} THEN handoff
        ELSE NoHandoff
    ELSE
        IF op = "flip" /\ handoff.stage = "produced" THEN [handoff EXCEPT !.stage = "flipped"]
        ELSE IF op = "load" /\ handoff.stage = "flipped" THEN [handoff EXCEPT !.stage = "loaded"]
        ELSE IF op = "wouldblock" /\ handoff.stage = "loaded" THEN handoff
        ELSE IF op = "front" /\ handoff.stage = "loaded" THEN [handoff EXCEPT !.stage = "acquired"]
        ELSE IF op = "read" /\ handoff.stage = "acquired" THEN [handoff EXCEPT !.stage = "read"]
        ELSE NoHandoff

Watched(t, op) == handoff' = HandoffAfter(t, op) /\ UNCHANGED <<worldVars, offVars>>

ProducerWatched ==
    \/ Load(Producer) /\ Watched(Producer, "load")
    \/ TryOk(Producer) /\ Watched(Producer, "back")
    \/ TryWouldBlock(Producer) /\ Watched(Producer, "wouldblock")
    \/ Clear /\ Watched(Producer, "clear")
    \/ Extend /\ Watched(Producer, "extend")
    \/ Release(Producer) /\ Watched(Producer, "release")

ConsumerWatched ==
    \/ Flip /\ Watched(Consumer, "flip")
    \/ Load(Consumer) /\ Watched(Consumer, "load")
    \/ TryOk(Consumer) /\ Watched(Consumer, "front")
    \/ TryWouldBlock(Consumer) /\ Watched(Consumer, "wouldblock")
    \/ ReadSlot /\ Watched(Consumer, "read")
    \/ Release(Consumer) /\ Watched(Consumer, "release")
    \/ Updates /\ handoff' = HandoffAfter(Consumer, "update") /\ UNCHANGED offVars

NextHandoff == ProducerWatched \/ ConsumerWatched
InitHandoff ==
    /\ InitBuf
    /\ WorldNew([grad_alpha |-> One, grad_damping |-> 0])
    /\ SideIdle
SpecHandoff == InitHandoff /\ [][NextHandoff]_vars

(***************************************************************************)
(* The frames of the event loop on the real slots: flip, front, the        *)
(* forcing block, the guard dropped, three updates.                        *)
(***************************************************************************)
\* the block of main.rs:128-140: the forcing written from the slot the guard is for
Force ==
    /\ ReadSlot
    /\ \E s \in guard[Consumer] : pressures' = Forced(pressures, bufs[s])
    /\ UNCHANGED <<pressures_back, velocities, velocities_back, materials, ticks, params>>
    /\ UNCHANGED sideVars

\* the event loop starts a frame; the callbacks so far have left the slots empty or
\* holding a frame, and the callback under way, if any, holds a slot it has cleared
InitFrame ==
    /\ idx \in Slots
    /\ poisoned = [s \in Slots |-> FALSE]
    /\ \E h \in {{}, {0}, {1}} :
        /\ guard = [t \in Threads |-> IF t = Producer THEN h ELSE {}]
        /\ locked = [s \in Slots |-> s \in h]
        /\ pc = [t \in Threads |-> IF t = Consumer THEN "flip"
                                    ELSE IF h = {} THEN "load" ELSE "extend"]
        /\ bufs \in [Slots -> Frames \cup {<<>>}]
        /\ \A s \in h : bufs[s] = <<>>
        /\ get_idx = [t \in Threads |-> IF t = Producer /\ 1 \in h THEN 1 ELSE 0]
        /\ nominal = [t \in Threads |-> IF t = Producer /\ 1 \in h THEN 1 ELSE 0]
    /\ fails = [t \in Threads |-> 0]
    /\ peerAcq = [t \in Threads |-> 0]
    /\ panicked = [t \in Threads |-> FALSE]
    /\ lastOp = "init"
    /\ \E par \in ParamSet : WorldNew(par)
    /\ SideIdle
NextFrame ==
    \/ Flip /\ UNCHANGED <<worldVars, sideVars>>
    \/ Load(Consumer) /\ UNCHANGED <<worldVars, sideVars>>
    \/ TryOk(Consumer) /\ UNCHANGED <<worldVars, sideVars>>
    \/ TryWouldBlock(Consumer) /\ UNCHANGED <<worldVars, sideVars>>
    \/ Force
    \/ Release(Consumer) /\ UNCHANGED <<worldVars, sideVars>>
    \/ Update
SpecFrame == InitFrame /\ [][NextFrame]_vars

(***************************************************************************)
(* The capture callback of do_audio (src/src/audio.rs:91-107).             *)
(***************************************************************************)
\* fft_processor.size()
ChunkSize == FftSize

\* the sample values a callback delivers
Samples == {0, One}
DataOfLen(n) == [1..n -> Samples]

\* accum_buffer.chunks_exact(chunk_size): the complete chunks from the start of the
\* buffer, each with the position of its first sample
ChunksExact(buf, n) ==
    [k \in 1..(Len(buf) \div n) |->
        [from |-> (k - 1) * n + 1, samples |-> SubSeq(buf, (k - 1) * n + 1, k * n)]]

\* the callback up to fft_processor.buffer(): accum_buffer.extend(data), then every
\* chunk of chunks_exact is copied into `buffer` and processed
Accumulate ==
    /\ pc[Producer] = "load"
    /\ lastOp \in {"init", "release"}
    /\ \E n \in 0..MaxData : \E data \in DataOfLen(n) :
        /\ Len(accum_buffer) + n <= MaxSamples
        /\ Len(handed) + (Len(accum_buffer) + n) \div ChunkSize <= MaxHanded
        /\ accum_buffer' = accum_buffer \o data
        /\ handed' = handed \o ChunksExact(accum_buffer \o data, ChunkSize)
    /\ lastOp' = "accumulate"
    /\ UNCHANGED <<bufVars, worldVars, panicked, grid, call, bound, handoff>>

\* the callback goes on to dbuf.back()
BackAfterAccumulate == lastOp = "accumulate" /\ Load(Producer)

\* the capture callbacks of a session, the event loop not running
InitAudio ==
    /\ InitBuf
    /\ WorldNew([grad_alpha |-> One, grad_damping |-> 0])
    /\ GridIdle /\ AudioIdle /\ BoundIdle /\ HandoffIdle
NextAudio ==
    \/ Accumulate
    \/ BackAfterAccumulate /\ UNCHANGED <<worldVars, sideVars>>
    \/ TryOk(Producer) /\ UNCHANGED <<worldVars, sideVars>>
    \/ Clear /\ UNCHANGED <<worldVars, sideVars>>
    \/ Extend /\ UNCHANGED <<worldVars, sideVars>>
    \/ Release(Producer) /\ UNCHANGED <<worldVars, sideVars>>
SpecAudio == InitAudio /\ [][NextAudio]_vars

(***************************************************************************)
(* Magnitudes under SimParams::default().  Each operator returns an upper  *)
(* bound of the magnitude the f32 code can produce from operands within    *)
(* the given bounds, rounding of the f32 operations included.              *)
(***************************************************************************)
\* 1.0 in the units of the bounds (hundred-thousandths)
BOne == 100000

Max(a, b) == IF a >= b THEN a ELSE b

\* |front[..] * 0.5| when it is finite: norm().ln() of a finite positive f32 lies
\* between ln(1.4e-45) = -103.3 and ln(3.4e38) = 88.8
ForceBound == 52 * BOne

\* |2.5 * (time / 3.0).sin()|
EmitterBound == 3 * BOne

\* |x * grad_alpha| for grad_alpha = 0.1: x / 9 bounds x * 0.1 and its rounding
GainBound(x) == x \div 9 + 1

\* |x * (1.0 - grad_damping)| for grad_damping = 0.9999: 1.0 - 0.9999 is 0.000100017
\* in f32, which 1 / 9900 bounds
KeepAllBound(x) == x
KeepBound(x) == x \div 9900 + 1

\* |right - left| and |down - up| for pressures within b
GradBound(b) == 2 * b + b \div 1000000 + 1

\* |accum| of the Fluid branch for velocity components within b
AccumBound(b) == 4 * b + b \div 1000000 + 1

\* the frame's forcing: rows 0..4 of the front pressures are overwritten with finite
\* values within ForceBound, or left alone when the slot is empty
BoundFrame ==
    /\ bound.phase = 0
    /\ bound.ticks < MaxBoundTicks
    /\ bound' = [bound EXCEPT !.p = Max(bound.p, ForceBound), !.phase = 3]
    /\ lastOp' = "force"
    /\ UNCHANGED <<bufVars, worldVars, panicked, grid, call, accum_buffer, handed, handoff>>

\* World::update on the bounds: the grids swap, *front_v becomes
\* (front_v + grad * 0.1) * (1 - 0.9999) or zero, *front becomes front - accum, the
\* Emitter value or zero
BoundUpdate ==
    /\ bound.phase > 0
    /\ bound.ticks < MaxBoundTicks
    /\ LET front == bound.pb
           back == bound.p
           front_v == bound.vb
           back_v == bound.v
       IN  bound' = [p |-> Max(front + AccumBound(back_v) + front \div 1000000 + 1, EmitterBound),
                     pb |-> back,
                     v |-> KeepBound(front_v + GainBound(GradBound(back))),
                     vb |-> back_v,
                     ticks |-> bound.ticks + 1,
                     phase |-> bound.phase - 1]
    /\ lastOp' = "update"
    /\ UNCHANGED <<bufVars, worldVars, panicked, grid, call, accum_buffer, handed, handoff>>

\* key R between two frames: World::new
BoundReset ==
    /\ bound.phase = 0
    /\ bound.ticks > 0
    /\ bound' = BoundZero
    /\ lastOp' = "reset"
    /\ UNCHANGED <<bufVars, worldVars, panicked, grid, call, accum_buffer, handed, handoff>>

\* the event loop under the default parameters, followed by magnitude
InitBound ==
    /\ InitBuf
    /\ WorldNew([grad_alpha |-> One, grad_damping |-> 0])
    /\ SideIdle
NextBound == BoundFrame \/ BoundUpdate \/ BoundReset
SpecBound == InitBound /\ [][NextBound]_vars

\* one Array2D, built and then read and written through get and get_mut
InitGrid ==
    /\ InitBuf
    /\ WorldNew([grad_alpha |-> One, grad_damping |-> 0])
    /\ SideIdle
NextGrid == New \/ GridGet \/ GridGetMut
SpecGrid == InitGrid /\ [][NextGrid]_vars

\* the two threads on the DoubleBuffer, the World left aside
InitBufSpec == InitBuf /\ WorldNew([grad_alpha |-> One, grad_damping |-> 0]) /\ SideIdle
NextBuf == ProducerNext \/ ConsumerNext
SpecBuf == InitBufSpec /\ [][NextBuf]_vars
SpecBufFair == SpecBuf /\ WF_vars(ProducerNext) /\ WF_vars(ConsumerNext)

\* the event loop on the World, the slot contents of each frame an input
InitMain == InitBuf /\ SideIdle /\ \E par \in ParamSet : WorldNew(par)
NextWorld == HostFrame \/ Update \/ SetParams \/ Reset
SpecMain == InitMain /\ [][NextWorld]_vars

\* a grid that holds a at cell c and zero elsewhere
Spike(c, a, zero) ==
    [width |-> WIDTH, height |-> HEIGHT,
     storage |-> [i \in Cells |-> IF i = c THEN a ELSE zero]]

\* a World built by hand, as a test builds one: one cell of any material holding a
\* pressure in each generation, one cell holding a velocity in each generation, the
\* tick counter just before or at a stripe repaint
InitWorld ==
    /\ InitBuf
    /\ SideIdle
    /\ \E c \in Cells, e \in Cells, m \in Materials :
        /\ materials = Spike(c, m, Fluid)
        /\ \E a \in {0, One}, b \in {0, 2 * One} :
            /\ pressures = Spike(c, a, 0)
            /\ pressures_back = Spike(c, b, 0)
        /\ \E v \in {Vec2Zero, Vec2(One, One)}, w \in {Vec2Zero, Vec2(One, 0 - One)} :
            /\ velocities = Spike(e, v, Vec2Zero)
            /\ velocities_back = Spike(e, w, Vec2Zero)
    /\ params \in ParamSet
    /\ ticks \in {MaxTicks - 2, MaxTicks - 1}
SpecWorld == InitWorld /\ [][NextWorld]_vars

\* a World at rest: every pressure and velocity zero in both generations, no Emitter
\* cell, one cell Fluid or Solid; the host finds the slot empty in every frame
InitQuiet ==
    /\ InitBuf
    /\ SideIdle
    /\ \E c \in Cells, m \in {Fluid, Solid} : materials = Spike(c, m, Fluid)
    /\ pressures = Array2DNew(WIDTH, HEIGHT, 0)
    /\ pressures_back = Array2DNew(WIDTH, HEIGHT, 0)
    /\ velocities = Array2DNew(WIDTH, HEIGHT, Vec2Zero)
    /\ velocities_back = Array2DNew(WIDTH, HEIGHT, Vec2Zero)
    /\ params \in WideParamSet
    /\ ticks = 0
SetAnyParams == SetParamsIn(WideParamSet)
NextQuiet == EmptyFrame \/ Update \/ SetAnyParams \/ Reset
SpecQuiet == InitQuiet /\ [][NextQuiet]_vars

(***************************************************************************)
(* Claims on the DoubleBuffer.                                             *)
(***************************************************************************)
InGet(t) == pc[t] = "try"
Holds(t) == guard[t] # {}
NoPanic == \A t \in Threads : ~panicked[t] /\ pc[t] # "panicked"
NoDeadlock == ENABLED NextBuf
OneGuardEach == \A t \in Threads : Cardinality(guard[t]) <= 1
JustAcquired(t) == lastOp = (IF t = Consumer THEN "front" ELSE "back")

\* C1 as stated: no deadlock, no panic, and under fair scheduling every front() and
\* every back() call eventually returns a guard.
C1_EveryCallReturns ==
    /\ [](NoDeadlock /\ NoPanic /\ OneGuardEach)
    /\ \A t \in Threads : InGet(t) ~> Holds(t)

\* C1 amended: no reachable state is a deadlock, no panic is reached, each thread
\* holds at most one guard, and under fair scheduling a pending front() or back()
\* call eventually returns a guard unless the other thread acquires a guard again:
\* a call is delayed only by further acquisitions of the other thread.
C1_NoDeadlockNoPanicProgress ==
    /\ [](NoDeadlock /\ NoPanic /\ OneGuardEach)
    /\ \A t \in Threads : InGet(t) ~> (Holds(t) \/ JustAcquired(Other(t)))

\* C1 witness: both threads are inside get() at once, one of them after a WouldBlock
C1_Contended ==
    /\ InGet(Producer) /\ InGet(Consumer)
    /\ fails[Consumer] >= 1

\* C2 as stated: in every front() or back() call at most one try_lock returns
\* WouldBlock before a try_lock succeeds.
C2_AtMostOneWouldBlock == \A t \in Threads : fails[t] <= 1

\* C2 amended: a call sees at most one WouldBlock more than the number of guards the
\* other thread acquired during the call, and after n WouldBlock results its next
\* try_lock is on the nominal slot when n is even and on the other slot when n is odd.
C2_WouldBlockBoundedByPeer ==
    \A t \in Threads :
        /\ fails[t] <= peerAcq[t] + 1
        /\ (InGet(t) /\ fails[t] = 0) => get_idx[t] = nominal[t]
        /\ (InGet(t) /\ fails[t] = 1) => get_idx[t] = 1 - nominal[t]
        /\ (InGet(t) /\ fails[t] = 2 /\ MaxFails > 2) => get_idx[t] = nominal[t]

\* C2 witness: a call that has seen two WouldBlock results
C2_TwoWouldBlocks == \E t \in Threads : InGet(t) /\ fails[t] = 2 /\ peerAcq[t] = 1

\* C3: each slot has at most one live guard, and a slot is locked exactly when a
\* guard for it is live.
C3_SlotExclusive ==
    \A s \in Slots :
        /\ Cardinality({t \in Threads : s \in guard[t]}) <= 1
        /\ locked[s] <=> (\E t \in Threads : s \in guard[t])

\* C3 witness: both threads hold a guard at the same time
C3_BothHold == Holds(Producer) /\ Holds(Consumer)

\* C4: flip() toggles idx between 0 and 1 in one step, is enabled whatever the locks,
\* and leaves the slots' contents and lock ownership unchanged.
C4_FlipOnlyTogglesIdx ==
    /\ [](pc[Consumer] = "flip" => ENABLED Flip)
    /\ [][lastOp' = "flip" =>
            /\ idx' \in Slots
            /\ idx' # idx
            /\ bufs' = bufs
            /\ locked' = locked
            /\ poisoned' = poisoned
            /\ guard' = guard]_vars

\* C4 witness: flip() has just run while the producer held a slot
C4_FlippedWhileLocked == lastOp = "flip" /\ Holds(Producer) /\ idx = 0

(***************************************************************************)
(* Claims on World::update.                                                *)
(***************************************************************************)
\* the divergence term D of the stencil on velocity grid v at cell i, out-of-grid
\* neighbours counted as zero
DivergenceTerm(v, i) ==
    FSub(FAdd(FSub(GetOr(v, CellX(i) - 1, CellY(i), Vec2Zero).x,
                   GetOr(v, CellX(i) + 1, CellY(i), Vec2Zero).x),
              GetOr(v, CellX(i), CellY(i) - 1, Vec2Zero).y),
         GetOr(v, CellX(i), CellY(i) + 1, Vec2Zero).y)

\* the gradient of pressure grid p at cell i, out-of-grid neighbours counted as zero
GradientTerm(p, i) ==
    Vec2(FSub(GetOr(p, CellX(i) + 1, CellY(i), 0), GetOr(p, CellX(i) - 1, CellY(i), 0)),
         FSub(GetOr(p, CellX(i), CellY(i) + 1, 0), GetOr(p, CellX(i), CellY(i) - 1, 0)))

\* (v + grad * gain) * (1 - damping)
DampedStep(v, grad, par) ==
    Vec2(FMul(FAdd(v.x, FMul(grad.x, par.grad_alpha)), FSub(One, par.grad_damping)),
         FMul(FAdd(v.y, FMul(grad.y, par.grad_alpha)), FSub(One, par.grad_damping)))

Updated == lastOp = "update"

\* C5 as stated: after any update(), the front pressure of every Fluid cell equals the
\* pressure the cell held immediately before the update minus the divergence term
\* computed on the velocities held immediately before the update.
C5_FrontIsBackMinusDivergence ==
    [][lastOp' = "update" =>
        \A i \in Cells : materials'.storage[i] = Fluid =>
            pressures'.storage[i] = FSub(pressures.storage[i], DivergenceTerm(velocities, i))]_vars

\* C6 as stated: after any update(), the front velocity of every non-Solid cell equals
\* (the velocity the cell held immediately before the update + gradient * gain) *
\* (1 - damping), the gradient read from the pressures held before the update.
C6_FrontVelocityFromBack ==
    [][lastOp' = "update" =>
        \A i \in Cells : materials'.storage[i] # Solid =>
            velocities'.storage[i] =
                DampedStep(velocities.storage[i], GradientTerm(pressures, i), params)]_vars

\* C7: immediately after any update(), every Solid cell has front pressure 0.0 and
\* front velocity (0,0).
C7_SolidIsZero ==
    Updated =>
        \A i \in Cells : materials.storage[i] = Solid =>
            pressures.storage[i] = 0 /\ velocities.storage[i] = Vec2Zero

\* C7 witness: an update has just repainted the stripe, and a cell that is Solid
\* after it held a non-zero pressure and a non-zero velocity before it
C7_SolidHadEnergy ==
    /\ Updated
    /\ (ticks - 1) % RepaintEvery = 0
    /\ \E i \in Cells :
        /\ materials.storage[i] = Solid
        /\ CellY(i) >= StripeTop
        /\ pressures_back.storage[i] # 0
        /\ velocities_back.storage[i] # Vec2Zero

AllZero ==
    \A i \in Cells :
        /\ pressures.storage[i] = 0
        /\ pressures_back.storage[i] = 0
        /\ velocities.storage[i] = Vec2Zero
        /\ velocities_back.storage[i] = Vec2Zero

Interior(i) ==
    CellX(i) > 0 /\ CellX(i) < WIDTH - 1 /\ CellY(i) > 0 /\ CellY(i) < HEIGHT - 1
AxisNeighbours(i) == {i - 1, i + 1, i - WIDTH, i + WIDTH}

\* the scenario of C9 at cell c: all Fluid, zero everywhere but front pressure 1.0 at
\* c, gradient_gain 1.0 and damping 0.0
C9_Scenario(c) ==
    /\ Interior(c)
    /\ \A i \in Cells : materials.storage[i] = Fluid
    /\ pressures = Spike(c, One, 0)
    /\ pressures_back = Array2DNew(WIDTH, HEIGHT, 0)
    /\ velocities = Array2DNew(WIDTH, HEIGHT, Vec2Zero)
    /\ velocities_back = Array2DNew(WIDTH, HEIGHT, Vec2Zero)
    /\ params = [grad_alpha |-> One, grad_damping |-> 0]

\* C9 as stated: one update() of the scenario leaves each axis neighbour of c with a
\* non-zero front velocity and leaves c's front pressure at 1.0 less the divergence
\* term of the stencil.
C9_SpikeSpreads ==
    [][\A c \in Cells :
        (C9_Scenario(c) /\ lastOp' = "update" /\ \A i \in Cells : materials'.storage[i] = Fluid) =>
            /\ \A n \in AxisNeighbours(c) : velocities'.storage[n] # Vec2Zero
            /\ pressures'.storage[c] = FSub(One, DivergenceTerm(velocities, c))]_vars

\* C10: after each update(), the front pressure of every Emitter cell is
\* 2.5 * sin((ticks / 16) / 3) for the tick counter as that update leaves it, whatever
\* the cell and its neighbours held before.
C10_EmitterIsOscillator ==
    Updated =>
        \A i \in Cells : materials.storage[i] = Emitter => pressures.storage[i] = OscTable[ticks]

\* C10 witness: an Emitter cell that held another pressure before the update, next to
\* a cell that held a velocity
C10_EmitterOverridesState ==
    /\ Updated
    /\ \E i \in Cells :
        /\ materials.storage[i] = Emitter
        /\ pressures_back.storage[i] = One
        /\ Interior(i)
        /\ \E n \in AxisNeighbours(i) : velocities_back.storage[n] # Vec2Zero

(***************************************************************************)
(* Claims on Array2D.                                                      *)
(***************************************************************************)
InRange(g, x, y) == x >= 0 /\ y >= 0 /\ x < g.width /\ y < g.height

\* C11: for every grid and every signed coordinate pair (x, y), get and get_mut
\* return no value when x < 0, y < 0, x >= width or y >= height, and otherwise return
\* the element stored at flat index x + width * y.
C11_GetIsRowMajorOrNone ==
    /\ call.op = "get" =>
        call.result = IF InRange(grid, call.x, call.y)
                      THEN <<grid.storage[call.x + grid.width * call.y]>>
                      ELSE <<>>
    /\ call.op = "get_mut" =>
        call.result = IF InRange(grid, call.x, call.y)
                      THEN <<call.x + grid.width * call.y>>
                      ELSE <<>>

\* C11 witness: get just past the end of a row that has a row below it returned None
C11_PastRowEnd ==
    /\ call.op = "get"
    /\ call.x = grid.width /\ call.y = 0 /\ grid.height >= 2 /\ grid.width >= 2
    /\ call.result = <<>>

\* C12: after a write of v through get_mut(x, y) at an in-range coordinate, get(x, y)
\* returns v and get at every other in-range coordinate returns what it returned
\* before the write.
C12_WriteThenRead ==
    [][(call'.op = "get_mut" /\ lastOp' = "get_mut" /\ InRange(grid, call'.x, call'.y)) =>
        \A x \in Coords, y \in Coords : InRange(grid, x, y) =>
            Get(grid', x, y) = IF x = call'.x /\ y = call'.y
                               THEN <<call'.val>>
                               ELSE Get(grid, x, y)]_vars

\* C12 witness: a write that changed a cell off the first row and column of a grid
\* in which another cell had been written before
C12_Overwrote ==
    /\ call.op = "get_mut"
    /\ call.result # <<>>
    /\ call.x >= 1 /\ call.y >= 1
    /\ grid.width # grid.height
    /\ \E i \in DOMAIN grid.storage, j \in DOMAIN grid.storage :
        i # j /\ grid.storage[i] # grid.storage[j] /\ i # call.result[1] /\ j # call.result[1]

\* C13: Array2D::new aborts when width is zero, when height is zero, or when
\* width * height overflows the addressable size; in every other case it returns a
\* grid of those dimensions whose storage has exactly width * height elements, all
\* equal to the fill value.
C13_NewFailsOrFills ==
    call.op = "new" =>
        IF call.x = 0 \/ call.y = 0 \/ call.x * call.y > VecMaxLen
        THEN grid.state = "panicked"
        ELSE /\ grid.state = "built"
             /\ grid.width = call.x /\ grid.height = call.y
             /\ Cardinality(DOMAIN grid.storage) = call.x * call.y
             /\ \A i \in DOMAIN grid.storage : grid.storage[i] = call.val

\* C13 witness: construction aborted on two non-zero dimensions whose product is
\* past usize::MAX
C13_ProductOverflowed ==
    /\ call.op = "new"
    /\ grid.state = "panicked"
    /\ call.x > 0 /\ call.y > 0 /\ call.x * call.y > UsizeMax

(***************************************************************************)
(* Claims on the magnitudes of the World's values.                         *)
(***************************************************************************)
\* a magnitude far below f32::MAX = 3.4e38
FiniteCap == 1000 * BOne

\* C14: under the default parameters (gradient_gain 0.1, damping 0.9999) every
\* pressure and every velocity component of every cell is finite after each of the
\* first 10,000 update() calls: each stays within 1000.0.
C14_FiniteUnderDefaults ==
    /\ bound.p <= FiniteCap
    /\ bound.pb <= FiniteCap
    /\ bound.v <= FiniteCap
    /\ bound.vb <= FiniteCap

\* C14 witness: 10,000 updates have run on forced pressures and moving velocities
C14_TenThousandUpdates ==
    /\ bound.ticks = 10000
    /\ lastOp = "update"
    /\ bound.p > ForceBound
    /\ bound.pb > ForceBound
    /\ bound.v > 0
    /\ bound.vb > 0

(***************************************************************************)
(* Claims on the two threads' use of the DoubleBuffer.                     *)
(***************************************************************************)
\* thread t takes the step from its program position a to b
Moves(t, a, b) == pc[t] = a /\ pc'[t] = b

\* C15: front() asks for the slot idx names and back() for the complement; a call
\* whose nominal slot is unlocked at its first try_lock returns the guard of exactly
\* that slot; a caller holds the other slot only after a try_lock on its nominal slot
\* returned WouldBlock.
C15_NominalSlotUnlessBlocked ==
    /\ [](\A t \in Threads :
            (Holds(t) /\ guard[t] # {nominal[t]}) => (fails[t] >= 1 /\ guard[t] = {1 - nominal[t]}))
    /\ [][/\ Moves(Consumer, "load", "try") => (nominal'[Consumer] = idx /\ get_idx'[Consumer] = idx)
          /\ Moves(Producer, "load", "try") =>
                (nominal'[Producer] = 1 - idx /\ get_idx'[Producer] = 1 - idx)
          /\ \A t \in Threads :
                /\ (pc[t] = "try" /\ pc'[t] # "try" /\ fails[t] = 0) => guard'[t] = {nominal[t]}
                /\ (pc[t] = "try" /\ fails[t] = 0 /\ ~locked[nominal[t]]) => get_idx'[t] = nominal[t]
                /\ (pc[t] = "try" /\ fails[t] = 0 /\ fails'[t] = 1) => locked[nominal[t]]]_vars

\* C15 witness: back() returned the slot idx names, after one WouldBlock on the
\* complement, while front() had returned its nominal slot without any
C15_FellBack ==
    /\ lastOp = "back"
    /\ guard[Producer] = {1 - nominal[Producer]}
    /\ fails[Producer] = 1
    /\ guard[Consumer] = {nominal[Consumer]}
    /\ fails[Consumer] = 0

(***************************************************************************)
(* Claims on the event loop and the World's grids.                         *)
(***************************************************************************)
SameShape(a, b) ==
    a.width = b.width /\ a.height = b.height /\ DOMAIN a.storage = DOMAIN b.storage

\* C16: immediately after every update(), the back pressure and back velocity grids
\* hold exactly what the front pressure and front velocity grids held immediately
\* before it, host forcing included, and front and back grids always have the same
\* dimensions.
C16_BackIsPreviousFront ==
    /\ [](SameShape(pressures, pressures_back) /\ SameShape(velocities, velocities_back))
    /\ [][lastOp' = "update" =>
            (pressures_back' = pressures /\ velocities_back' = velocities)]_vars

\* C16 witness: the first update() of a later frame has run; the back pressures hold
\* the value the host forced just before it, the front pressures do not, and the
\* back velocities are not all zero
C16_ForcedValueWentBack ==
    /\ Updated
    /\ pc[Consumer] = "update2"
    /\ ticks > 3
    /\ \E i \in Cells :
        CellY(i) < ForceRows /\ pressures_back.storage[i] = One /\ pressures.storage[i] # One
    /\ \E i \in Cells : velocities_back.storage[i] # Vec2Zero

(***************************************************************************)
(* Claims on the capture callback.                                         *)
(***************************************************************************)
\* the samples received so far: accum_buffer is only ever extended
Received == Len(accum_buffer)

\* the times the chunk that starts at sample position f was handed to the transform
TimesHanded(f) == Cardinality({j \in 1..Len(handed) : handed[j].from = f})

\* C17 as stated: after each capture callback every complete window of chunk_size
\* samples has been handed to the spectral transform exactly once, in order and with
\* its own samples, and the samples not handed yet are the trailing
\* (received mod chunk_size) ones.
C17_EachWindowOnce ==
    lastOp = "accumulate" =>
        /\ Len(handed) = Received \div ChunkSize
        /\ \A k \in 1..(Received \div ChunkSize) :
            /\ TimesHanded((k - 1) * ChunkSize + 1) = 1
            /\ handed[k].samples = SubSeq(accum_buffer, (k - 1) * ChunkSize + 1, k * ChunkSize)

\* x * 0.5 with a non-finite result replaced by 0.0
HalfOrZero(x) == IF IsFinite(x) THEN x \div 2 ELSE 0

\* C18: in one host frame, when the acquired slot is empty nothing in the World
\* changes; otherwise only the front pressure cells of rows 0..3 are written, column x
\* receiving slot[x mod len] * 0.5 or 0 when that is not finite; velocities,
\* materials, back grids and the tick counter are not changed by the forcing, no
\* other step before the updates changes the World, and the slot guard is released
\* before the first update().
C18_ForcingWritesOnlyTheStrip ==
    /\ [](pc[Consumer] \in {"update1", "update2", "update3"} =>
            (guard[Consumer] = {} /\ \A s \in Slots : locked[s] => s \in guard[Producer]))
    /\ [][/\ lastOp' \in {"flip", "load", "front", "wouldblock", "release"} => UNCHANGED worldVars
          /\ lastOp' = "read" =>
                \A s \in guard[Consumer] :
                    /\ bufs[s] = <<>> => UNCHANGED worldVars
                    /\ bufs[s] # <<>> =>
                        \A i \in Cells :
                            pressures'.storage[i] =
                                IF CellY(i) < ForceRows
                                THEN HalfOrZero(bufs[s][(CellX(i) % Len(bufs[s])) + 1])
                                ELSE pressures.storage[i]
                    /\ UNCHANGED <<pressures_back, velocities, velocities_back, materials,
                                   ticks, params>>]_vars

\* C18 witness: in its second frame the host has forced from a slot that holds a
\* silent bin and a finite bin, reached after a WouldBlock on the other slot, in a
\* World the first frame's updates had set moving below the strip
C18_ForcedFromSpectrum ==
    /\ lastOp = "read"
    /\ ticks = 3
    /\ fails[Consumer] = 1
    /\ \E s \in guard[Consumer] : bufs[s] # <<>> /\ bufs[s][1] = NInf /\ bufs[s][2] = 2 * One
    /\ pressures.storage[0] = 0 /\ pressures.storage[1] = One /\ pressures.storage[2] = 0
    /\ \E i \in Cells : CellY(i) >= ForceRows /\ velocities.storage[i] # Vec2Zero

\* the contents a slot has outside a producer cycle: the initial empty vector or one
\* whole frame
Whole(b) == b = <<>> \/ b \in Frames

\* C19: whenever the consumer holds a slot guard the producer holds none for that
\* slot and the slot holds the initial empty vector or one whole frame; what the
\* consumer holds does not change while it holds it, and a slot that has held a whole
\* frame is never seen empty or part-filled by the consumer, fallback to the other
\* slot included.
C19_ConsumerSeesWholeFrames ==
    /\ [](\A s \in Slots :
            /\ s \in guard[Consumer] => (s \notin guard[Producer] /\ Whole(bufs[s]))
            /\ s \notin guard[Producer] => Whole(bufs[s]))
    /\ [][\A s \in Slots :
            /\ (s \in guard[Consumer] /\ s \in guard'[Consumer]) => bufs'[s] = bufs[s]
            /\ (bufs[s] \in Frames /\ s \notin guard'[Producer]) => bufs'[s] \in Frames]_vars

\* C19 witness: the consumer holds a whole frame it reached by falling back to the
\* other slot while the producer is half way through refilling the slot it holds
C19_ReadBesideHalfFrame ==
    /\ fails[Consumer] >= 1
    /\ \E s \in guard[Consumer] : bufs[s] \in Frames
    /\ \E r \in guard[Producer] : Len(bufs[r]) = 1

\* C20: when one or more whole producer cycles have run while the consumer waited at
\* flip() holding no guard, and the producer is between cycles when the consumer's
\* flip() runs, the front() that follows acquires exactly the slot the producer wrote
\* last, and the consumer reads from it exactly the frame the most recent of those
\* cycles wrote.
C20_HandoffDeliversLastFrame ==
    handoff.stage \in {"acquired", "read"} =>
        /\ guard[Consumer] = {handoff.slot}
        /\ handoff.frame \in Frames
        /\ bufs[handoff.slot] = handoff.frame
        /\ fails[Consumer] = 0

\* C20 witness: the consumer has read the frame of the second of two producer cycles
\* that wrote different frames into the same slot, the other slot holding an older frame
C20_ReadNewestOfTwo ==
    /\ handoff.stage = "read"
    /\ bufs[1 - handoff.slot] \in Frames
    /\ bufs[1 - handoff.slot] # handoff.frame
    /\ handoff.frame[1] = 2 * One /\ handoff.frame[2] = NInf

====
